---- MODULE Spec2Model ----
(***************************************************************************)
(* Model of server/relayer.py: a single-threaded relayer that polls a      *)
(* TokensSent event filter on the local chain and, for every event whose   *)
(* dstChainId is Sepolia, builds, signs and submits a mintFromRemote       *)
(* transaction to the bridge on Sepolia and waits for its receipt.         *)
(*                                                                         *)
(* The two chains are the environment: the local chain appends log entries *)
(* (Emit), Sepolia changes its gas price (GasPriceChange) and mines        *)
(* pending transactions of the relayer account (Mine).  Every RPC call is  *)
(* one step that either returns or raises.                                 *)
(***************************************************************************)
EXTENDS Integers, Sequences, FiniteSets, TLC

\* ---------------------------------------------------------------- bounds
\* Number of TokensSent log entries the local chain emits in one run.
MaxLog == 2

\* ------------------------------------------------------- configuration
LOCAL_CHAIN_ID == 1337
SEPOLIA_CHAIN_ID == 11155111
POLL_INTERVAL == 5
RELAYER_ADDRESS == "0xRelayer"
RELAYER_PRIVATE_KEY == "key"
BRIDGE_B_ADDRESS == "0xBridgeB"

\* ---------------------------------------------------------- value sets
\* The args of a TokensSent log entry (bridge_a.events.TokensSent).
EventArgs ==
    [sender : {"0xA"}, to : {"0xB"}, amount : {100}, nonce : {1, 2},
     dstChainId : {SEPOLIA_CHAIN_ID, 999}]

\* Values w3_sepolia.eth.gas_price can return.
GasPrices == {1, 2}

\* A local of handle_tokens_sent that is not bound yet.
Unset == -1

VARIABLES
    pc,         \* position of the single thread of the process
    chainLog,   \* local chain: the TokensSent log entries, in chain order
    cursor,     \* event_filter: number of log entries it has passed
    batch,      \* the list get_new_entries returned (log positions), being iterated
    idx,        \* position in batch of the event being handled (0: none yet)
    txCount,    \* handle_tokens_sent: value read for "nonce"
    maxFee,     \* handle_tokens_sent: value read for "maxFeePerGas"
    maxPrio,    \* handle_tokens_sent: value read for "maxPriorityFeePerGas"
    tx,         \* handle_tokens_sent: the built transaction, <<>> or <<t>>
    signed,     \* handle_tokens_sent: the signed transaction, <<>> or <<s>>
    txHash,     \* handle_tokens_sent: hash of the sent transaction (0: none)
    gasPrice,   \* Sepolia: current gas price
    sent,       \* Sepolia: transactions accepted by send_raw_transaction, in order
    mined,      \* Sepolia: hashes (positions in sent) of the mined transactions
    fate,       \* history: per log entry, what the process did with it
    calls,      \* history: <<log position, call>> for every call made while handling it
    returned,   \* history: log positions returned by some poll
    slept,      \* history: the sleeps since the last call of get_new_entries
    polled,     \* history: get_new_entries was called at least once
    unreachable \* history: the endpoints that mk_w3 found not connected

vars == <<pc, chainLog, cursor, batch, idx, txCount, maxFee, maxPrio, tx, signed,
          txHash, gasPrice, sent, mined, fate, calls, returned, slept, polled, unreachable>>

locals == <<txCount, maxFee, maxPrio, tx, signed, txHash>>
sepolia == <<gasPrice, sent, mined>>
history == <<fate, calls, returned, slept, polled, unreachable>>

\* Positions of the thread inside the while loop of main.
LoopPcs == {"poll", "next", "handle", "get_transaction_count", "gas_price_fee",
            "gas_price_prio", "build_transaction", "sign_transaction",
            "send_raw_transaction", "wait_for_transaction_receipt", "sleep"}

\* Mutant of EventAt: the for loop iterates the list from its end.
EventAtReversed(b, k) == b[Len(b) + 1 - k]

\* Line 117: the k-th event that the for loop takes from the list.
EventAt(b, k) == b[k]

\* The event (log position) being handled.
Cur == EventAt(batch, idx)
Args == chainLog[Cur]

\* w3_sepolia.eth.get_transaction_count(RELAYER_ADDRESS): the transactions of the
\* relayer account in mined blocks (default block "latest").
AccountNonce == Cardinality(mined)

Fate(s, a) == [st |-> s, at |-> a]

SetFate(i, s, a) == [fate EXCEPT ![i] = Fate(s, a)]

\* ------------------------------------------------------------ helpers
\* Mutant of Skip: the guard is missing.
SkipNothing(args) == FALSE

\* Mutant of Skip: the guard also skips a transfer that was sent before.
SkipRelayed(args) ==
    \/ args.dstChainId # SEPOLIA_CHAIN_ID
    \/ \E k \in DOMAIN sent :
          /\ sent[k].tx.to = args.to
          /\ sent[k].tx.amount = args.amount
          /\ sent[k].tx.nonce = args.nonce

\* Line 85: the guard of handle_tokens_sent, true when the event is skipped.
Skip(args) == args.dstChainId # SEPOLIA_CHAIN_ID

\* Mutant of BuildTx: srcChainId is taken from the event's chain id field.
BuildTxChainIdFromEvent(args, count, fee, prio) ==
    [fn |-> "mintFromRemote", contract |-> BRIDGE_B_ADDRESS,
     to |-> args.to, amount |-> args.amount, nonce |-> args.nonce,
     srcChainId |-> args.dstChainId,
     from |-> RELAYER_ADDRESS, txnonce |-> count, gas |-> 300000,
     maxFeePerGas |-> fee, maxPriorityFeePerGas |-> prio,
     chainId |-> SEPOLIA_CHAIN_ID]

\* Lines 90-102: bridge_b.functions.mintFromRemote(to, amount, nonce,
\* LOCAL_CHAIN_ID).build_transaction({...}) on the values read before.
BuildTx(args, count, fee, prio) ==
    [fn |-> "mintFromRemote", contract |-> BRIDGE_B_ADDRESS,
     to |-> args.to, amount |-> args.amount, nonce |-> args.nonce,
     srcChainId |-> LOCAL_CHAIN_ID,
     from |-> RELAYER_ADDRESS, txnonce |-> count, gas |-> 300000,
     maxFeePerGas |-> fee, maxPriorityFeePerGas |-> prio,
     chainId |-> SEPOLIA_CHAIN_ID]

\* Line 104: w3_sepolia.eth.account.sign_transaction(tx, private_key=...).
SignTx(t, key) == [rawTransaction |-> t, key |-> key]

\* Mutant of NewEntries: get_all_entries, every entry the filter matches.
AllEntries(log, cur) == [k \in 1..Len(log) |-> k]

\* Line 117: event_filter.get_new_entries() returns the log entries that were
\* appended after the filter's cursor, in chain order.
NewEntries(log, cur) == [k \in 1..(Len(log) - cur) |-> cur + k]

\* Mutant of AfterException: the try block is inside the for loop, which goes on.
AfterExceptionContinue(b, k) == [pc |-> "next", batch |-> b, idx |-> k]

\* Mutant of AfterException: time.sleep is the last statement of the try block.
AfterExceptionNoSleep(b, k) == [pc |-> "poll", batch |-> <<>>, idx |-> 0]

\* Mutant of AfterException: no try block, the exception ends the process.
AfterExceptionUncaught(b, k) == [pc |-> "crashed", batch |-> <<>>, idx |-> 0]

\* Lines 115-121: an exception raised inside the for loop leaves the loop (the rest
\* of the list is dropped), is caught by the except clause of the same iteration of
\* the while loop, and control reaches time.sleep.
AfterException(b, k) == [pc |-> "sleep", batch |-> <<>>, idx |-> 0]

\* Mutant of AfterConnect: mk_w3 returns w3 without the assert.
AfterConnectUnchecked(connected, nxt) == nxt

\* Lines 47-48: assert w3.is_connected() ends the process, else mk_w3 returns and
\* the module goes on with the next statement.
AfterConnect(connected, nxt) == IF connected THEN nxt ELSE "crashed"

\* Mutant of FilterStart: create_filter(from_block="earliest").
FilterStartEarliest(log) == 0

\* Line 112: create_filter(from_block="latest"): the filter's cursor starts after
\* the log entries that exist when the filter is created.
FilterStart(log) == Len(log)

\* Line 121: the argument of time.sleep.
SleepDuration == POLL_INTERVAL

\* Sepolia's transaction pool: a sent transaction is pending while it is not mined,
\* its account nonce is not used up, and no later transaction replaced it.
InPool(k) ==
    /\ k \in DOMAIN sent
    /\ k \notin mined
    /\ sent[k].tx.txnonce >= AccountNonce
    /\ \A j \in DOMAIN sent : j > k => sent[j].tx.txnonce # sent[k].tx.txnonce

\* Line 105: whether the node accepts the raw transaction: not with a used-up
\* account nonce ("nonce too low"), not with a priority fee cap above the fee cap,
\* and with the account nonce of a pending transaction only as a replacement that
\* raises both fee caps.
SendAccepts(t) ==
    /\ t.txnonce >= AccountNonce
    /\ t.maxPriorityFeePerGas <= t.maxFeePerGas
    /\ \A k \in DOMAIN sent :
          (InPool(k) /\ sent[k].tx.txnonce = t.txnonce)
             => /\ t.maxFeePerGas > sent[k].tx.maxFeePerGas
                /\ t.maxPriorityFeePerGas > sent[k].tx.maxPriorityFeePerGas

\* Mutant of ReceiptAvailable: handle_tokens_sent does not wait for the receipt.
ReceiptAssumed(h) == TRUE

\* Line 107: wait_for_transaction_receipt returns once the transaction is mined.
ReceiptAvailable(h) == h \in mined

ResetLocals ==
    /\ txCount' = Unset /\ maxFee' = Unset /\ maxPrio' = Unset
    /\ tx' = <<>> /\ signed' = <<>> /\ txHash' = 0

\* An exception raised by `call` while the event at batch[idx] is handled.
Raise(call) ==
    LET r == AfterException(batch, idx) IN
    /\ pc' = r.pc /\ batch' = r.batch /\ idx' = r.idx
    /\ ResetLocals
    /\ fate' = SetFate(Cur, "raised", call)
    /\ calls' = calls \cup {<<Cur, call>>}
    /\ UNCHANGED <<chainLog, cursor, returned, slept, polled, unreachable>>

\* --------------------------------------------------------------- Init
Init ==
    /\ pc = "mk_w3_local"
    /\ chainLog = <<>> /\ cursor = 0
    /\ batch = <<>> /\ idx = 0
    /\ txCount = Unset /\ maxFee = Unset /\ maxPrio = Unset
    /\ tx = <<>> /\ signed = <<>> /\ txHash = 0
    /\ gasPrice \in GasPrices /\ sent = <<>> /\ mined = {}
    /\ fate = <<>> /\ calls = {} /\ returned = {} /\ slept = <<>> /\ polled = FALSE
    /\ unreachable = {}

\* -------------------------------------------------------- environment
\* The local chain appends a TokensSent log entry.
Emit ==
    /\ pc # "crashed"
    /\ Len(chainLog) < MaxLog
    /\ \E e \in EventArgs :
          /\ chainLog' = Append(chainLog, e)
          /\ fate' = Append(fate, Fate("unseen", IF pc \in LoopPcs THEN ""
                                                   ELSE "before_filter"))
    /\ UNCHANGED <<pc, cursor, batch, idx, locals, sepolia, calls, returned, slept, polled, unreachable>>

\* Sepolia's gas price moves.  It is read at lines 99 and 100 only, so the moves
\* that can be told apart are those while a transaction is being built.
GasPriceChange ==
    /\ pc \in {"get_transaction_count", "gas_price_fee", "gas_price_prio"}
    /\ \E g \in GasPrices \ {gasPrice} : gasPrice' = g
    /\ UNCHANGED <<pc, chainLog, cursor, batch, idx, locals, sent, mined, history>>

\* Sepolia mines the pending transaction that carries the account's next nonce.
Mine ==
    /\ \E k \in DOMAIN sent :
          /\ InPool(k)
          /\ sent[k].tx.txnonce = AccountNonce
          /\ mined' = mined \cup {k}
    /\ UNCHANGED <<pc, chainLog, cursor, batch, idx, locals, gasPrice, sent, history>>

\* ------------------------------------------------------------ startup
\* Line 54: mk_w3(LOCAL_RPC, LOCAL_CHAIN_ID); the assert of line 47 ends the process.
MkW3Local ==
    /\ pc = "mk_w3_local"
    /\ \E connected \in BOOLEAN :
          /\ pc' = AfterConnect(connected, "mk_w3_sepolia")
          /\ unreachable' = IF connected THEN unreachable
                                        ELSE unreachable \cup {"local"}
    /\ UNCHANGED <<chainLog, cursor, batch, idx, locals, sepolia,
                   fate, calls, returned, slept, polled>>

\* Line 55: mk_w3(SEPOLIA_RPC, SEPOLIA_CHAIN_ID).
MkW3Sepolia ==
    /\ pc = "mk_w3_sepolia"
    /\ \E connected \in BOOLEAN :
          /\ pc' = AfterConnect(connected, "create_filter")
          /\ unreachable' = IF connected THEN unreachable
                                        ELSE unreachable \cup {"sepolia"}
    /\ UNCHANGED <<chainLog, cursor, batch, idx, locals, sepolia,
                   fate, calls, returned, slept, polled>>

\* Line 112: TokensSent.create_filter(from_block="latest"): the filter starts
\* after the entries the chain holds already.
CreateFilter ==
    /\ pc = "create_filter"
    /\ cursor' = FilterStart(chainLog)
    /\ pc' = "poll"
    /\ UNCHANGED <<chainLog, batch, idx, locals, sepolia, history>>

\* Line 112 raises: outside the try block, the process ends.
CreateFilterRaise ==
    /\ pc = "create_filter"
    /\ pc' = "crashed"
    /\ UNCHANGED <<chainLog, cursor, batch, idx, locals, sepolia, history>>

\* --------------------------------------------------- the loop of main
\* Line 117: get_new_entries returns; the filter's cursor moves past what it
\* returned, and the for loop starts on the list.
PollReturn ==
    /\ pc = "poll"
    /\ batch' = NewEntries(chainLog, cursor)
    /\ cursor' = Len(chainLog)
    /\ idx' = 0
    /\ pc' = "next"
    /\ returned' = returned \cup {batch'[k] : k \in DOMAIN batch'}
    /\ fate' = [i \in DOMAIN fate |->
                  IF \E k \in DOMAIN batch' : batch'[k] = i
                  THEN Fate("fetched", "") ELSE fate[i]]
    /\ slept' = <<>> /\ polled' = TRUE
    /\ UNCHANGED unreachable
    /\ UNCHANGED <<chainLog, locals, sepolia, calls>>

\* Line 117: get_new_entries raises (RPC failure): caught at line 119.
PollRaise ==
    /\ pc = "poll"
    /\ LET r == AfterException(<<>>, 0) IN
          pc' = r.pc /\ batch' = r.batch /\ idx' = r.idx
    /\ slept' = <<>> /\ polled' = TRUE
    /\ UNCHANGED unreachable
    /\ UNCHANGED <<chainLog, cursor, locals, sepolia, fate, calls, returned>>

\* Mutant of NextEvent: the guard leaves the for loop (break) instead of returning.
NextEventSkipEndsLoop ==
    /\ pc = "next"
    /\ IF idx < Len(batch)
       THEN /\ idx' = IF Skip(chainLog[EventAt(batch, idx + 1)]) THEN 0 ELSE idx + 1
            /\ batch' = IF Skip(chainLog[EventAt(batch, idx + 1)]) THEN <<>> ELSE batch
            /\ calls' = calls \cup {<<EventAt(batch, idx + 1), "handle_tokens_sent">>}
            /\ IF Skip(chainLog[EventAt(batch, idx + 1)])
               THEN /\ pc' = "sleep"
                    /\ fate' = SetFate(EventAt(batch, idx + 1), "skipped", "")
               ELSE /\ pc' = "get_transaction_count"
                    /\ fate' = SetFate(EventAt(batch, idx + 1), "handling", "")
       ELSE /\ idx' = 0 /\ batch' = <<>>
            /\ pc' = "sleep"
            /\ UNCHANGED <<fate, calls>>
    /\ UNCHANGED <<chainLog, cursor, locals, sepolia, returned, slept, polled, unreachable>>

\* Lines 117-118 and 75-87: the for loop takes the next event of the list and calls
\* handle_tokens_sent, which returns at once when the guard skips the event; or the
\* list is exhausted and control reaches time.sleep.
NextEvent ==
    /\ pc = "next"
    /\ IF idx < Len(batch)
       THEN /\ idx' = idx + 1
            /\ batch' = batch
            /\ calls' = calls \cup {<<EventAt(batch, idx + 1), "handle_tokens_sent">>}
            /\ IF Skip(chainLog[EventAt(batch, idx + 1)])
               THEN /\ pc' = "next"
                    /\ fate' = SetFate(EventAt(batch, idx + 1), "skipped", "")
               ELSE /\ pc' = "get_transaction_count"
                    /\ fate' = SetFate(EventAt(batch, idx + 1), "handling", "")
       ELSE /\ idx' = 0 /\ batch' = <<>>
            /\ pc' = "sleep"
            /\ UNCHANGED <<fate, calls>>
    /\ UNCHANGED <<chainLog, cursor, locals, sepolia, returned, slept, polled, unreachable>>

\* Line 97: w3_sepolia.eth.get_transaction_count(RELAYER_ADDRESS) returns.
GetTransactionCount ==
    /\ pc = "get_transaction_count"
    /\ txCount' = AccountNonce
    /\ pc' = "gas_price_fee"
    /\ calls' = calls \cup {<<Cur, "get_transaction_count">>}
    /\ UNCHANGED <<chainLog, cursor, batch, idx, maxFee, maxPrio, tx, signed, txHash,
                   sepolia, fate, returned, slept, polled, unreachable>>

GetTransactionCountRaise ==
    /\ pc = "get_transaction_count"
    /\ Raise("get_transaction_count")
    /\ UNCHANGED sepolia

\* Line 99: w3_sepolia.eth.gas_price for "maxFeePerGas" returns.
GasPriceFee ==
    /\ pc = "gas_price_fee"
    /\ maxFee' = gasPrice
    /\ pc' = "gas_price_prio"
    /\ calls' = calls \cup {<<Cur, "gas_price">>}
    /\ UNCHANGED <<chainLog, cursor, batch, idx, txCount, maxPrio, tx, signed, txHash,
                   sepolia, fate, returned, slept, polled, unreachable>>

\* Mutant of GasPriceFeeRaise: the exception is swallowed and a fee of 0 is used.
GasPriceFeeRaiseSwallowed ==
    /\ pc = "gas_price_fee"
    /\ maxFee' = 0
    /\ pc' = "gas_price_prio"
    /\ calls' = calls \cup {<<Cur, "gas_price">>}
    /\ fate' = SetFate(Cur, "raised", "gas_price")
    /\ UNCHANGED <<chainLog, cursor, batch, idx, txCount, maxPrio, tx, signed, txHash,
                   sepolia, returned, slept, polled, unreachable>>

GasPriceFeeRaise ==
    /\ pc = "gas_price_fee"
    /\ Raise("gas_price")
    /\ UNCHANGED sepolia

\* Line 100: w3_sepolia.eth.gas_price for "maxPriorityFeePerGas" returns.
GasPricePrio ==
    /\ pc = "gas_price_prio"
    /\ maxPrio' = gasPrice
    /\ pc' = "build_transaction"
    /\ calls' = calls \cup {<<Cur, "gas_price">>}
    /\ UNCHANGED <<chainLog, cursor, batch, idx, txCount, maxFee, tx, signed, txHash,
                   sepolia, fate, returned, slept, polled, unreachable>>

GasPricePrioRaise ==
    /\ pc = "gas_price_prio"
    /\ Raise("gas_price")
    /\ UNCHANGED sepolia

\* Lines 90-102: build_transaction returns the transaction dict.
BuildTransaction ==
    /\ pc = "build_transaction"
    /\ tx' = <<BuildTx(Args, txCount, maxFee, maxPrio)>>
    /\ txCount' = Unset /\ maxFee' = Unset /\ maxPrio' = Unset
    /\ pc' = "sign_transaction"
    /\ calls' = calls \cup {<<Cur, "build_transaction">>}
    /\ UNCHANGED <<chainLog, cursor, batch, idx, signed, txHash,
                   sepolia, fate, returned, slept, polled, unreachable>>

BuildTransactionRaise ==
    /\ pc = "build_transaction"
    /\ Raise("build_transaction")
    /\ UNCHANGED sepolia

\* Line 104: sign_transaction returns.
SignTransaction ==
    /\ pc = "sign_transaction"
    /\ signed' = <<SignTx(tx[1], RELAYER_PRIVATE_KEY)>>
    /\ pc' = "send_raw_transaction"
    /\ calls' = calls \cup {<<Cur, "sign_transaction">>}
    /\ UNCHANGED <<chainLog, cursor, batch, idx, txCount, maxFee, maxPrio, tx, txHash,
                   sepolia, fate, returned, slept, polled, unreachable>>

SignTransactionRaise ==
    /\ pc = "sign_transaction"
    /\ Raise("sign_transaction")
    /\ UNCHANGED sepolia

\* Line 105: send_raw_transaction returns the hash: the node took the transaction.
SendRawTransaction ==
    /\ pc = "send_raw_transaction"
    /\ SendAccepts(signed[1].rawTransaction)
    /\ sent' = Append(sent, [tx |-> signed[1].rawTransaction, ev |-> Cur])
    /\ txHash' = Len(sent) + 1
    /\ pc' = "wait_for_transaction_receipt"
    /\ calls' = calls \cup {<<Cur, "send_raw_transaction">>}
    /\ UNCHANGED <<chainLog, cursor, batch, idx, txCount, maxFee, maxPrio, tx, signed,
                   gasPrice, mined, fate, returned, slept, polled, unreachable>>

\* Line 105 raises (the node refuses the transaction, or the RPC fails before the
\* node has it).
SendRawTransactionRaise ==
    /\ pc = "send_raw_transaction"
    /\ Raise("send_raw_transaction")
    /\ UNCHANGED sepolia

\* Lines 107-108: wait_for_transaction_receipt returns the receipt and
\* handle_tokens_sent returns to the for loop.
WaitForReceipt ==
    /\ pc = "wait_for_transaction_receipt"
    /\ ReceiptAvailable(txHash)
    /\ ResetLocals
    /\ pc' = "next"
    /\ fate' = SetFate(Cur, "done", "")
    /\ calls' = calls \cup {<<Cur, "wait_for_transaction_receipt">>}
    /\ UNCHANGED <<chainLog, cursor, batch, idx, sepolia, returned, slept, polled, unreachable>>

\* Mutant of WaitForReceiptRaise: the handling is retried from the build.
WaitForReceiptRetry ==
    /\ pc = "wait_for_transaction_receipt"
    /\ ResetLocals
    /\ pc' = "get_transaction_count"
    /\ calls' = calls \cup {<<Cur, "wait_for_transaction_receipt">>}
    /\ UNCHANGED <<chainLog, cursor, batch, idx, sepolia, fate, returned, slept, polled, unreachable>>

\* Line 107 raises (RPC failure, or the wait gives up).
WaitForReceiptRaise ==
    /\ pc = "wait_for_transaction_receipt"
    /\ Raise("wait_for_transaction_receipt")
    /\ UNCHANGED sepolia

\* Line 121: time.sleep(POLL_INTERVAL) returns and the while loop starts over.
Sleep ==
    /\ pc = "sleep"
    /\ slept' = Append(slept, SleepDuration)
    /\ pc' = "poll"
    /\ UNCHANGED <<chainLog, cursor, batch, idx, locals, sepolia, fate, calls,
                   returned, polled, unreachable>>

\* ------------------------------------------------------ specification
Startup == MkW3Local \/ MkW3Sepolia \/ CreateFilter \/ CreateFilterRaise

Poll == PollReturn \/ PollRaise

HandleTokensSent ==
    \/ GetTransactionCount \/ GetTransactionCountRaise
    \/ GasPriceFee \/ GasPriceFeeRaise
    \/ GasPricePrio \/ GasPricePrioRaise
    \/ BuildTransaction \/ BuildTransactionRaise
    \/ SignTransaction \/ SignTransactionRaise
    \/ SendRawTransaction \/ SendRawTransactionRaise
    \/ WaitForReceipt \/ WaitForReceiptRaise

\* The steps of the process.
Relayer == Startup \/ Poll \/ NextEvent \/ HandleTokensSent \/ Sleep

\* The steps of the two chains.
Chains == Emit \/ GasPriceChange \/ Mine

Next == Relayer \/ Chains

Spec == Init /\ [][Next]_vars

\* Every blocking call of the process eventually returns or raises.
FairSpec == Spec /\ WF_vars(Relayer)

\* ============================================================ properties
ForSepolia(i) == chainLog[i].dstChainId = SEPOLIA_CHAIN_ID

\* The transactions the node took for the event at log position i.
SentFor(i) == {k \in DOMAIN sent : sent[k].ev = i}

Called(i, c) == <<i, c>> \in calls

\* The calls of handle_tokens_sent that reach the Sepolia endpoint or use the key.
BuildCalls == {"get_transaction_count", "gas_price", "build_transaction",
               "sign_transaction", "send_raw_transaction",
               "wait_for_transaction_receipt"}

\* t calls mintFromRemote(a.to, a.amount, a.nonce, LOCAL_CHAIN_ID).
MintCallOf(t, a) ==
    /\ t.fn = "mintFromRemote"
    /\ t.to = a.to /\ t.amount = a.amount /\ t.nonce = a.nonce
    /\ t.srcChainId = LOCAL_CHAIN_ID

\* The event at position i waits in the list that the for loop is iterating.
Remaining(i) == \E k \in DOMAIN batch : k > idx /\ batch[k] = i

\* The event was returned by a poll, was never passed to handle_tokens_sent and is
\* in no list any more.
Abandoned(i) == i \in returned /\ fate[i].st = "fetched" /\ ~Remaining(i)

\* The handling of the event is over: skipped, raised, or returned after the
\* receipt of its transaction.
Finished(i) ==
    \/ fate[i].st \in {"skipped", "raised"}
    \/ fate[i].st = "done" /\ SentFor(i) # {} /\ SentFor(i) \subseteq mined

\* A step of the loop stays in the loop.
StaysInLoop == pc \in LoopPcs => pc' \in LoopPcs

\* ---------------------------------------------------------------- C1
\* C1: every transaction built for an event whose dstChainId is SEPOLIA_CHAIN_ID,
\* and every transaction sent, calls mintFromRemote with (to, amount, nonce) of that
\* event and srcChainId = LOCAL_CHAIN_ID, the configuration constant; and once
\* build_transaction has returned for the event being handled, that transaction
\* exists.
C1_MintArguments ==
    /\ tx # <<>> => ForSepolia(Cur) /\ MintCallOf(tx[1], Args)
    /\ \A k \in DOMAIN sent :
          ForSepolia(sent[k].ev) /\ MintCallOf(sent[k].tx, chainLog[sent[k].ev])
    /\ \A i \in DOMAIN chainLog :
          (fate[i].st = "handling" /\ Called(i, "build_transaction")) => tx # <<>>

C1_Witness ==
    /\ tx # <<>> /\ Args.nonce = 2
    /\ \E k \in DOMAIN sent : sent[k].tx.nonce = 1

\* ---------------------------------------------------------------- C2
\* C2: for an event whose dstChainId is not SEPOLIA_CHAIN_ID no call other than
\* handle_tokens_sent itself is ever made (no transaction count read, no gas price
\* read, no build, no signature, no send, no wait), no sent transaction belongs to
\* it, and the step that skips it leaves Sepolia's state and the locals unchanged.
C2_NotForSepolia ==
    \A i \in DOMAIN chainLog :
       ~ForSepolia(i) =>
           /\ \A c \in BuildCalls : ~Called(i, c)
           /\ SentFor(i) = {}
           /\ fate[i].st \in {"unseen", "fetched", "skipped"}

C2_SkipStep ==
    \A i \in DOMAIN chainLog :
       (~ForSepolia(i) /\ ~Called(i, "handle_tokens_sent")
           /\ <<i, "handle_tokens_sent">> \in calls')
         => /\ UNCHANGED <<gasPrice, sent, mined, txCount, maxFee, maxPrio, tx, signed, txHash>>
            /\ tx = <<>> /\ signed = <<>>
            /\ pc' = "next"

C2_SkippedUntouched == []C2_NotForSepolia /\ [][C2_SkipStep]_vars

C2_Witness ==
    \E i \in DOMAIN chainLog : fate[i].st = "skipped" /\ sent # <<>>

\* ---------------------------------------------------------------- C3
\* C3: no deduplication.  When two events for Sepolia with the same (to, amount,
\* nonce) were both returned by polls and the handling of both is over without an
\* exception, the node took exactly one transaction for each of them: two entries.
SameTransfer(a, b) == a.to = b.to /\ a.amount = b.amount /\ a.nonce = b.nonce

C3_NoDeduplication ==
    \A i, j \in DOMAIN chainLog :
       (/\ i < j
        /\ ForSepolia(i) /\ ForSepolia(j)
        /\ SameTransfer(chainLog[i], chainLog[j])
        /\ fate[i].st \in {"done", "skipped"}
        /\ fate[j].st \in {"done", "skipped"})
         => /\ Cardinality(SentFor(i)) = 1
            /\ Cardinality(SentFor(j)) = 1
            /\ Cardinality(SentFor(i) \cup SentFor(j)) = 2

C3_Witness ==
    \E i, j \in DOMAIN chainLog :
       /\ i < j /\ ForSepolia(i) /\ ForSepolia(j)
       /\ SameTransfer(chainLog[i], chainLog[j])
       /\ fate[i].st = "done" /\ fate[j].st = "done"
       /\ Len(sent) = 2

\* ---------------------------------------------------------------- C4
\* C4: the filter's cursor never moves back, and a poll that returns never returns
\* a log entry that an earlier poll returned, whatever became of that entry.
C4_Step ==
    /\ cursor' >= cursor
    /\ returned \subseteq returned'
    /\ (pc = "poll" /\ pc' = "next")
         => /\ \A k \in DOMAIN batch' : batch'[k] \notin returned
            /\ \A k, m \in DOMAIN batch' : k # m => batch'[k] # batch'[m]
            /\ cursor' = Len(chainLog)

C4_CursorOnlyAdvances == [][C4_Step]_vars

\* A poll has just returned a new entry after the handling of an earlier one raised.
C4_Witness ==
    /\ pc = "next" /\ idx = 0 /\ batch # <<>>
    /\ \E i \in returned : fate[i].st = "raised"

\* ---------------------------------------------------------------- C5
\* C5: when the handling of an event raises, the later events of the same list are
\* abandoned at that step; an abandoned event stays abandoned for ever, no call is
\* ever made for it and no transaction is ever sent for it; and the process stays
\* in the while loop (control reaches the sleep).
C5_Step ==
    /\ \A i \in DOMAIN chainLog :
          Abandoned(i) =>
             /\ Abandoned(i)'
             /\ \A c \in BuildCalls \cup {"handle_tokens_sent"} : <<i, c>> \notin calls'
             /\ \A k \in DOMAIN sent' : sent'[k].ev # i
    /\ \A k \in DOMAIN batch :
          (k = idx /\ fate[batch[k]].st = "handling" /\ fate'[batch[k]].st = "raised")
            => /\ \A i \in DOMAIN chainLog : Remaining(i) => Abandoned(i)'
               /\ pc' = "sleep"
    /\ StaysInLoop

C5_RestOfBatchLost == [][C5_Step]_vars

\* Event 1 raised, event 2 of the same list was abandoned, the loop polls again.
C5_Witness ==
    /\ pc = "poll"
    /\ \E i, j \in DOMAIN chainLog :
          i < j /\ fate[i].st = "raised" /\ Abandoned(j) /\ ForSepolia(j)

\* ---------------------------------------------------------------- C6
\* C6: when get_transaction_count or gas_price raises for an event, control goes
\* to the sleep with the list dropped, nothing was or is ever signed or sent for
\* that event, and the step after the sleep is the next poll.
LookupRaised(i) ==
    fate[i].st = "raised" /\ fate[i].at \in {"get_transaction_count", "gas_price"}

C6_Never ==
    \A i \in DOMAIN chainLog :
       LookupRaised(i) =>
          /\ ~Called(i, "build_transaction")
          /\ ~Called(i, "sign_transaction")
          /\ ~Called(i, "send_raw_transaction")
          /\ SentFor(i) = {}

C6_Step ==
    /\ \A i \in DOMAIN chainLog :
          (fate[i].st = "handling" /\ LookupRaised(i)')
            => /\ pc' = "sleep" /\ batch' = <<>>
               /\ sent' = sent /\ tx' = <<>> /\ signed' = <<>>
    /\ (pc = "sleep" /\ pc' # "sleep") => pc' = "poll"

C6_LookupFailure == []C6_Never /\ [][C6_Step]_vars

C6_Witness ==
    /\ pc = "poll"
    /\ \E i \in DOMAIN chainLog : fate[i].st = "raised" /\ fate[i].at = "gas_price"

\* ---------------------------------------------------------------- C7
\* C7: when the process is about to poll again, exactly one sleep happened since
\* the previous poll and it lasted POLL_INTERVAL; between a poll and the sleep
\* that follows it no sleep happens.
C7_OneFixedSleep ==
    /\ (pc = "poll" /\ polled) => slept = <<POLL_INTERVAL>>
    /\ pc \in LoopPcs \ {"poll"} => slept = <<>>

\* About to poll after a cycle that ended with an exception of the receipt wait.
C7_Witness ==
    /\ pc = "poll" /\ polled
    /\ \E i \in DOMAIN chainLog :
          fate[i].st = "raised" /\ fate[i].at = "wait_for_transaction_receipt"

\* ---------------------------------------------------------------- C8
\* C8: once in the while loop the process never leaves it, and from every state of
\* the loop a poll of the local chain eventually happens again (when every blocking
\* call eventually returns or raises: FairSpec).
C8_NoTerminalState ==
    /\ [][StaysInLoop]_vars
    /\ [](pc \in LoopPcs => <>(pc = "poll"))
    /\ []((pc = "poll") => <>(pc # "poll"))

C8_Witness ==
    /\ pc = "poll" /\ polled
    /\ \E i, j \in DOMAIN chainLog :
          /\ i # j
          /\ fate[i].st = "raised" /\ fate[i].at = "send_raw_transaction"
          /\ fate[j].st = "raised" /\ fate[j].at = "sign_transaction"

\* ---------------------------------------------------------------- C9
\* C9 as stated: whenever event N+1 has been fetched (returned by a poll), the
\* handling of event N is over.
C9_NextNotFetchedBefore ==
    \A i, j \in returned :
       j = i + 1 => fate[i].st \in {"skipped", "done", "raised"}

\* C9 amended: the events of one list are fetched together; what is sequential is
\* the handling.  Whenever the handling of an event has started, the handling of
\* every event returned before it is over (skipped, raised, or returned after its
\* transaction was mined) or the event was abandoned; and whenever the process is
\* about to poll, the same holds of every event returned so far.
C9_HandlingSequential ==
    /\ \A i, j \in returned :
          (i < j /\ fate[j].st # "fetched") => Finished(i) \/ Abandoned(i)
    /\ pc = "poll" => \A i \in returned : Finished(i) \/ Abandoned(i)
    /\ \A i \in returned : fate[i].st = "handling" => (idx > 0 /\ Cur = i)

\* The second event of a list waits for its receipt; the first one is done.
C9_Witness ==
    /\ pc = "wait_for_transaction_receipt" /\ idx = 2
    /\ fate[batch[1]].st = "done" /\ fate[batch[2]].st = "handling"

\* ---------------------------------------------------------------- C10
\* C10: a sent transaction stays in Sepolia's record and a mined one stays mined;
\* the receipt wait is left either by returning (the transaction is mined, the for
\* loop goes on) or by raising, which sends nothing, drops the list and goes to the
\* sleep; and no event ever has more than one sent transaction.
C10_Step ==
    /\ \A k \in DOMAIN sent : k \in DOMAIN sent' /\ sent'[k] = sent[k]
    /\ mined \subseteq mined'
    /\ (pc = "wait_for_transaction_receipt" /\ pc' # pc)
         => \/ pc' = "next" /\ txHash \in mined /\ sent' = sent
            \/ /\ pc' = "sleep" /\ batch' = <<>> /\ sent' = sent
               /\ fate'[Cur].st = "raised"

C10_AtMostOnce ==
    \A i \in DOMAIN chainLog : Cardinality(SentFor(i)) <= 1

C11_StaysWhileNotMined ==
    (pc = "wait_for_transaction_receipt" /\ txHash \notin mined')
       => pc' = "wait_for_transaction_receipt"

C11_WaitsForever == [][C11_StaysWhileNotMined]_vars

\* C11 amended: the receipt wait is left only by returning, with the transaction
\* mined, or by raising, which goes to the sleep; and as long as the process is in
\* the wait nothing of it moves: no poll (cursor, returned, list), no other event
\* (position in the list, calls, outcomes), no other transaction (locals, sent).
C11_WaitStep ==
    pc = "wait_for_transaction_receipt" =>
       \/ /\ pc' = "wait_for_transaction_receipt"
          /\ UNCHANGED <<cursor, batch, idx, locals, sent, calls, returned,
                         slept, polled, unreachable>>
          /\ \A i \in DOMAIN fate : fate'[i] = fate[i]
       \/ /\ pc' = "next" /\ txHash \in mined
          /\ UNCHANGED <<cursor, batch, idx, sent, returned>>
       \/ /\ pc' = "sleep" /\ fate'[Cur].st = "raised"
          /\ UNCHANGED <<cursor, sent, returned>>

C11_WaitBlocksEverything == [][C11_WaitStep]_vars

\* In the wait, transaction not mined, a new log entry is there to be polled.
C11_Witness ==
    /\ pc = "wait_for_transaction_receipt"
    /\ txHash \notin mined
    /\ Len(chainLog) > cursor


\* ---------------------------------------------------------------- C12
\* C12: when mk_w3 found the local or the Sepolia endpoint not connected, the
\* process has ended before create_filter: it never polled, no log entry was ever
\* returned or handled, and nothing was sent.
C12_UnreachableEndsStartup ==
    unreachable # {} =>
       /\ pc = "crashed"
       /\ ~polled /\ returned = {} /\ cursor = 0
       /\ calls = {} /\ sent = <<>>
       /\ \A i \in DOMAIN fate : fate[i].st = "unseen"

\* Sepolia was not reachable; the local chain had emitted events.
C12_Witness ==
    /\ unreachable = {"sepolia"}
    /\ chainLog # <<>> /\ ForSepolia(1)


\* ---------------------------------------------------------------- C13
\* C13: in every built transaction maxFeePerGas and maxPriorityFeePerGas are equal
\* (both the gas price at build time) and gas is 300000.
GasCapsEqual(t) == t.maxFeePerGas = t.maxPriorityFeePerGas /\ t.gas = 300000

C13_FeeCapsEqual ==
    /\ tx # <<>> => GasCapsEqual(tx[1])
    /\ \A k \in DOMAIN sent : GasCapsEqual(sent[k].tx)


\* ---------------------------------------------------------------- C14
\* C14: the transactions are sent in the order of their events in the local
\* chain's log, which is the order the polls returned them in: of two sent
\* transactions, the one sent earlier belongs to the earlier event.
C14_SentInEventOrder ==
    \A k, m \in DOMAIN sent : k < m => sent[k].ev < sent[m].ev

\* Two events of one list, both sent; the second one waits for its receipt.
C14_Witness ==
    /\ pc = "wait_for_transaction_receipt" /\ idx = 2
    /\ Len(sent) = 2 /\ sent[1].ev = batch[1] /\ sent[2].ev = batch[2]


\* ---------------------------------------------------------------- C15
\* C15: a log entry that the local chain emitted before the filter was created is
\* never returned by a poll: it stays unseen for ever, no call is made for it and
\* no transaction is sent for it.
BeforeFilter(i) == fate[i] = Fate("unseen", "before_filter")

C15_Never ==
    \A i \in DOMAIN fate :
       BeforeFilter(i) =>
          /\ i \notin returned
          /\ \A c \in BuildCalls \cup {"handle_tokens_sent"} : ~Called(i, c)
          /\ SentFor(i) = {}
          /\ pc \in LoopPcs => i <= cursor

C15_Step ==
    \A i \in DOMAIN fate :
       BeforeFilter(i) => BeforeFilter(i)' /\ i \notin returned'

C15_EarlierEventsNeverSeen == []C15_Never /\ [][C15_Step]_vars

\* An event for Sepolia from before the filter was never seen, while a later one
\* was relayed to the end.
C15_Witness ==
    \E i, j \in DOMAIN fate :
       /\ i < j /\ BeforeFilter(i) /\ ForSepolia(i)
       /\ fate[j].st = "done"


\* ---------------------------------------------------------------- C16
\* C16: the account nonce of the built transaction is a transaction count that
\* the relayer account had (the one read at line 97), that of a sent transaction
\* is at most the number of transactions sent before it, and no two sent
\* transactions carry the same account nonce.
C16_AccountNoncesDistinct ==
    /\ tx # <<>> => tx[1].txnonce \in 0..AccountNonce
    /\ \A k \in DOMAIN sent : sent[k].tx.txnonce \in 0..(k - 1)
    /\ \A k, m \in DOMAIN sent :
          k # m => sent[k].tx.txnonce # sent[m].tx.txnonce


\* ---------------------------------------------------------------- C17
\* C17: every sent transaction belongs to an event for Sepolia that a poll had
\* returned, no event has more than one sent transaction, and so the number of sent
\* transactions is at most the number of events for Sepolia returned so far.
ReturnedForSepolia == {i \in returned : ForSepolia(i)}

C17_SentWithinFetched ==
    /\ \A k \in DOMAIN sent : sent[k].ev \in ReturnedForSepolia
    /\ \A i \in DOMAIN chainLog : Cardinality(SentFor(i)) <= 1
    /\ Len(sent) <= Cardinality(ReturnedForSepolia)

\* Two events for Sepolia were returned, one transaction was sent (the handling of
\* the other raised before the send), and the cycle is over.
C17_Witness ==
    /\ pc = "poll"
    /\ Cardinality(ReturnedForSepolia) = 2
    /\ Len(sent) = 1
    /\ \A i \in returned : Finished(i)


\* ---------------------------------------------------------------- C18
\* C18: the step that skips an event leaves the list in place and goes on with the
\* for loop; a returned event is abandoned only when an earlier returned event
\* raised, never because of a skip; and an event for Sepolia whose handling ended
\* without an exception has its transaction sent.
C18_SkipStep ==
    \A i \in DOMAIN fate :
       (fate[i].st = "fetched" /\ fate'[i].st = "skipped")
          => /\ pc' = "next"
             /\ batch' = batch /\ idx' = idx + 1
             /\ \A j \in DOMAIN fate : Remaining(j) /\ j # i => Remaining(j)'

C18_State ==
    /\ \A j \in DOMAIN fate :
          Abandoned(j) => \E i \in returned : i < j /\ fate[i].st = "raised"
    /\ \A j \in DOMAIN fate :
          (ForSepolia(j) /\ fate[j].st \in {"done", "skipped"}) => SentFor(j) # {}
    /\ \A j \in DOMAIN fate : fate[j].st = "skipped" => ~ForSepolia(j)

C18_SkipDoesNotAbort == []C18_State /\ [][C18_SkipStep]_vars

\* The first event of a list was skipped; the second one, for Sepolia, was handled
\* in the same cycle and its transaction is sent.
C18_Witness ==
    /\ pc = "wait_for_transaction_receipt" /\ idx = 2
    /\ fate[batch[1]].st = "skipped"
    /\ SentFor(batch[2]) # {}

====
